---- MODULE Spec2Model ----
(***************************************************************************)
(* NYC Subway Art API (app/main.py): the fetch / merge / filter cycle of   *)
(* one request, and the text helpers it uses.                              *)
(*                                                                         *)
(* Text is a sequence of one-character strings.  Characters that have no   *)
(* ASCII spelling are written as named tokens: "LF" (newline), "CR"        *)
(* (carriage return), "TAB", "O_GRAVE" (U+00D2), "O_ACUTE" (U+00D3),       *)
(* "E_ACUTE" (U+00C9), "A_CIRC" (U+00C2) and their lower-case forms.       *)
(* Python's None is the value None below.                                  *)
(*                                                                         *)
(* Coordinates are integers in units of 10^-7 degree, so the 0.0001 degree *)
(* step of offset_coordinates is OffsetStep units.                         *)
(***************************************************************************)
EXTENDS Integers, Sequences, FiniteSets, TLC

VARIABLES
    kind,                  \* which endpoint the request hit
    pc,                    \* position of the request handler
    fetch,                 \* per upstream: state of its fetch_data task
    upstream,              \* per upstream: the HTTP answer it gives
    attempts,              \* per upstream: number of GETs issued
    stations_data,         \* result of fetch_data(STATIONS_API)
    artworks_data,         \* result of fetch_data(ARTWORKS_API)
    station_dict,          \* merge_data / aggregate_station_data: station_dict
    pos,                   \* index of the next artwork of the for loop
    merged_artworks,       \* merge_data: merged_artworks
    origin,                \* history: input position of each merged artwork
    station_artwork_count, \* merge_data: station_artwork_count
    agg_origin,            \* history: input positions behind station['artworks']
    param,                 \* the request's borough / art_id parameter
    response,              \* the HTTP response of the request
    line,                  \* normalize_line harness: the label
    line_set,              \* normalize_line harness: the result
    san_in,                \* sanitize_text harness: the argument
    san_once,              \* sanitize_text harness: sanitize_text(san_in)
    san_twice,             \* sanitize_text harness: sanitize_text(san_once)
    pass                   \* number of the merge_data call under way

vars == <<kind, pc, fetch, upstream, attempts, stations_data, artworks_data,
          station_dict, pos, merged_artworks, origin, station_artwork_count,
          agg_origin, param, response, line, line_set, san_in, san_once, san_twice, pass>>

(***************************************************************************)
(* Bounds of the model.                                                    *)
(***************************************************************************)
MaxStations == 2
MaxArtworks == 3
MaxLabelLen == 2
MaxTextLen == 3
MaxPasses == 2

(***************************************************************************)
(* Text                                                                    *)
(***************************************************************************)
None == <<"<None>">>

\* The values that are not str: None and the int 123
NonStrings == {None, <<"<123>">>}

\* isinstance(s, str)
Str(s) == s \notin NonStrings

\* str.upper() / str.lower() on the letters in use
UpperCase == <<"A", "B", "C", "D", "E", "F", "J", "K", "M", "N", "Q", "R", "W", "Z",
               "O_GRAVE", "O_ACUTE", "E_ACUTE", "A_CIRC">>
LowerCase == <<"a", "b", "c", "d", "e", "f", "j", "k", "m", "n", "q", "r", "w", "z",
               "o_grave", "o_acute", "e_acute", "a_circ">>

\* The characters outside \x00-\x7F
NonAscii == {"O_GRAVE", "O_ACUTE", "E_ACUTE", "A_CIRC",
             "o_grave", "o_acute", "e_acute", "a_circ"}

\* str.split() and the regex class \s
Whitespace == {" ", "LF", "CR", "TAB"}

LowerChar(c) ==
    IF \E k \in 1..Len(UpperCase) : UpperCase[k] = c
    THEN LowerCase[CHOOSE k \in 1..Len(UpperCase) : UpperCase[k] = c]
    ELSE c

UpperChar(c) ==
    IF \E k \in 1..Len(LowerCase) : LowerCase[k] = c
    THEN UpperCase[CHOOSE k \in 1..Len(LowerCase) : LowerCase[k] = c]
    ELSE c

lower(s) == [k \in 1..Len(s) |-> LowerChar(s[k])]

upper(s) == [k \in 1..Len(s) |-> UpperChar(s[k])]

\* str.replace(old, new): leftmost, non-overlapping occurrences
RECURSIVE replace(_, _, _)
replace(s, old, new) ==
    IF Len(s) < Len(old) \/ old = <<>> THEN s
    ELSE IF SubSeq(s, 1, Len(old)) = old
         THEN new \o replace(SubSeq(s, Len(old) + 1, Len(s)), old, new)
         ELSE <<Head(s)>> \o replace(Tail(s), old, new)

\* re.split on runs of the characters of seps, empty pieces dropped:
\* the pieces in order
RECURSIVE SplitOn(_, _, _)
SplitOn(s, seps, cur) ==
    IF s = <<>> THEN (IF cur = <<>> THEN <<>> ELSE <<cur>>)
    ELSE IF Head(s) \in seps
         THEN (IF cur = <<>> THEN <<>> ELSE <<cur>>) \o SplitOn(Tail(s), seps, <<>>)
         ELSE SplitOn(Tail(s), seps, Append(cur, Head(s)))

\* ' '.join(words)
RECURSIVE JoinSpace(_)
JoinSpace(words) ==
    IF words = <<>> THEN <<>>
    ELSE IF Len(words) = 1 THEN words[1]
    ELSE words[1] \o <<" ">> \o JoinSpace(Tail(words))

Range(s) == {s[k] : k \in 1..Len(s)}

\* sanitize_text collapsing the whitespace before it removes characters
sanitize_text_JoinFirst(text) ==
    IF ~Str(text) THEN text
    ELSE LET t0 == JoinSpace(SplitOn(text, Whitespace, <<>>))
             t1 == SelectSeq(t0, LAMBDA c : c \notin NonAscii)
             t5 == replace(replace(t1, <<"LF">>, <<" ">>), <<"CR">>, <<>>)
         IN  t5

sanitize_text(text) ==
    IF ~Str(text) THEN text
    ELSE LET t1 == SelectSeq(text, LAMBDA c : c \notin NonAscii)
             t2 == replace(replace(t1, <<"O_GRAVE">>, <<"\"">>), <<"O_ACUTE">>, <<"\"">>)
             t3 == replace(replace(t2, <<"E_ACUTE">>, <<"E">>), <<"e_acute">>, <<"e">>)
             t4 == replace(replace(t3, <<"A_CIRC">>, <<"A">>), <<"a_circ">>, <<"a">>)
             t5 == replace(replace(t4, <<"LF">>, <<" ">>), <<"CR">>, <<>>)
         IN  JoinSpace(SplitOn(t5, Whitespace, <<>>))

LineSeparators == {",", "/", "-"} \cup Whitespace

normalize_line(l) ==
    IF l = None \/ l = <<>> THEN {}
    ELSE LET u  == upper(l)
             r1 == replace(u,  <<"A","C","E">>,     <<"A",",","C",",","E">>)
             r2 == replace(r1, <<"B","D","F","M">>, <<"B",",","D",",","F",",","M">>)
             r3 == replace(r2, <<"N","Q","R">>,     <<"N",",","Q",",","R">>)
             r4 == replace(r3, <<"N","Q","R","W">>, <<"N",",","Q",",","R",",","W">>)
             r5 == replace(r4, <<"J","Z">>,         <<"J",",","Z">>)
         IN  Range(SplitOn(r5, LineSeparators, <<>>))

(***************************************************************************)
(* Upstream documents                                                      *)
(*                                                                         *)
(* A station feature carries station_id, stop_name, daytime_routes,        *)
(* borough and the two coordinates as text; an artwork record carries id,  *)
(* station_name and line (<<>> when the label is absent or empty).  The    *)
(* other free-text fields of an artwork (artist, art_title, ...) are only  *)
(* copied through sanitize_text and are left out.                          *)
(***************************************************************************)
Digits == <<"0", "1", "2", "3", "4", "5", "6", "7", "8", "9">>

IdText(k) == <<Digits[k + 1]>>

StationCatalog ==
    << [stop_name |-> <<"K">>, daytime_routes |-> <<"N", ",", "Q">>,
        borough |-> <<"M">>, gtfs_latitude |-> <<"4", "0">>, gtfs_longitude |-> <<"7", "4">>],
       [stop_name |-> <<"k", " ">>, daytime_routes |-> <<"A", "-", "C">>,
        borough |-> <<"B", "k">>, gtfs_latitude |-> <<"4", "1">>, gtfs_longitude |-> <<"7", "3">>],
       [stop_name |-> <<"Z">>, daytime_routes |-> <<"N">>,
        borough |-> <<"M">>, gtfs_latitude |-> <<"a">>, gtfs_longitude |-> <<"7", "4">>] >>

ArtworkCatalog ==
    << [id |-> <<"1">>, station_name |-> <<"K">>, line |-> <<"N">>],
       [id |-> <<"2">>, station_name |-> <<"k", "O_GRAVE">>, line |-> <<"a", "/", "c">>],
       [id |-> <<"3">>, station_name |-> <<"K">>, line |-> <<>>],
       [id |-> <<"4">>, station_name |-> <<"Q">>, line |-> <<"N">>] >>

SeqsUpTo(S, n) == UNION {[1..k -> S] : k \in 0..n}

\* station_id is the feature's position: identifiers are unique
StationFeeds ==
    {[k \in 1..Len(f) |->
        [station_id |-> IdText(k)] @@ StationCatalog[f[k]]] :
        f \in SeqsUpTo(DOMAIN StationCatalog, MaxStations)}

ArtworkFeeds ==
    {[k \in 1..Len(f) |-> ArtworkCatalog[f[k]]] :
        f \in SeqsUpTo(DOMAIN ArtworkCatalog, MaxArtworks)}

Upstreams == {"stations", "artworks"}

Feeds(u) == IF u = "stations" THEN StationFeeds ELSE ArtworkFeeds

NoAnswer == [outcome |-> "none", status |-> 0, body |-> <<>>]

\* What an upstream can answer: no answer at all (network error), or an HTTP
\* status with a body that is JSON or not.  The JSON bodies sent with an
\* error status are the documents of at most one record.
Answers(u) ==
    {[outcome |-> "network_error", status |-> 0, body |-> <<>>]}
    \cup {[outcome |-> "malformed", status |-> s, body |-> <<>>] : s \in {200, 500}}
    \cup {[outcome |-> "json", status |-> 200, body |-> b] : b \in Feeds(u)}
    \cup {[outcome |-> "json", status |-> 500, body |-> b] :
            b \in {f \in Feeds(u) : Len(f) <= 1}}

\* session.get raises on a network error, response.json() on a body that is
\* not JSON; the status is not looked at.
fetch_data(answer) ==
    IF answer.outcome = "json"
    THEN [raised |-> FALSE, value |-> answer.body]
    ELSE [raised |-> TRUE, value |-> <<>>]

(***************************************************************************)
(* Coordinates                                                             *)
(***************************************************************************)
\* float(text) for the decimal spellings the feeds use; anything else raises
IsFloatText(t) == Str(t) /\ t # <<>> /\ \A k \in 1..Len(t) : t[k] \in Range(Digits)

DigitValue(c) == (CHOOSE k \in 1..Len(Digits) : Digits[k] = c) - 1

RECURSIVE DecimalValue(_)
DecimalValue(t) ==
    IF t = <<>> THEN 0 ELSE 10 * DecimalValue(SubSeq(t, 1, Len(t) - 1)) + DigitValue(t[Len(t)])

float(t) == DecimalValue(t) * 10000000

\* 0.0001 degree
OffsetStep == 1000

\* random.uniform(0, 2*pi): the directions the model draws, as
\* 1000*cos(angle) and 1000*sin(angle)
CosMilli == <<1000, 600, -800, 0>>
SinMilli == <<0, 800, 600, -1000>>
Angles == DOMAIN CosMilli

\* offset_coordinates with a radius that ignores the index
offset_coordinates_FixedRadius(lat, lon, index, angle) ==
    LET offset == OffsetStep
        lat_offset == (offset * CosMilli[angle]) \div 1000
        lon_offset == (offset * SinMilli[angle]) \div 1000
    IN  <<lat + lat_offset, lon + lon_offset>>

offset_coordinates(lat, lon, index, angle) ==
    LET offset == (index + 1) * OffsetStep
        lat_offset == (offset * CosMilli[angle]) \div 1000
        lon_offset == (offset * SinMilli[angle]) \div 1000
    IN  <<lat + lat_offset, lon + lon_offset>>

(***************************************************************************)
(* merge_data                                                              *)
(***************************************************************************)
\* The dict comprehensions of merge_data and aggregate_station_data raise
\* when float() does
StationsParse(stations) ==
    \A k \in 1..Len(stations) :
        IsFloatText(stations[k].gtfs_latitude) /\ IsFloatText(stations[k].gtfs_longitude)

\* station_dict.values() in insertion order
MergeStationDict(stations) ==
    [k \in 1..Len(stations) |->
        stations[k] @@ [latitude |-> float(stations[k].gtfs_latitude),
                        longitude |-> float(stations[k].gtfs_longitude)]]

AggregateStationDict(stations) ==
    [k \in 1..Len(stations) |->
        stations[k] @@ [latitude |-> float(stations[k].gtfs_latitude),
                        longitude |-> float(stations[k].gtfs_longitude),
                        artworks |-> <<>>]]

Min(S) == CHOOSE x \in S : \A y \in S : x <= y

\* get_exact_station_match without the line test: any station of that name
get_exact_station_match_AnyLine(sd, artwork) ==
    LET station_name == sanitize_text(artwork.station_name)
        artwork_lines == normalize_line(artwork.line)
        hits == {k \in 1..Len(sd) :
                    lower(sanitize_text(sd[k].stop_name)) = lower(station_name)}
    IN  IF artwork_lines = {} THEN 0
        ELSE IF hits = {} THEN 0
        ELSE Min(hits)

\* get_exact_station_match falling back to the name when there is no label
get_exact_station_match_NameFallback(sd, artwork) ==
    LET station_name == sanitize_text(artwork.station_name)
        artwork_lines == normalize_line(artwork.line)
        named == {k \in 1..Len(sd) :
                    lower(sanitize_text(sd[k].stop_name)) = lower(station_name)}
        hits == {k \in named :
                    artwork_lines \cap normalize_line(sd[k].daytime_routes) # {}}
    IN  IF artwork_lines = {} THEN (IF named = {} THEN 0 ELSE Min(named))
        ELSE IF hits = {} THEN 0
        ELSE Min(hits)

\* The position in station_dict.values() of the station returned; 0 for None
get_exact_station_match(sd, artwork) ==
    LET station_name == sanitize_text(artwork.station_name)
        artwork_lines == normalize_line(artwork.line)
        hits == {k \in 1..Len(sd) :
                    /\ lower(sanitize_text(sd[k].stop_name)) = lower(station_name)
                    /\ artwork_lines \cap normalize_line(sd[k].daytime_routes) # {}}
    IN  IF artwork_lines = {} THEN 0
        ELSE IF hits = {} THEN 0
        ELSE Min(hits)

\* list.insert(0, item) in place of list.append
Emit_Front(out, item) == <<item>> \o out

\* list.append
Emit(out, item) == Append(out, item)

\* station_artwork_count.get(count_key, 0)
CountOf(counts, count_key) ==
    IF count_key \in DOMAIN counts THEN counts[count_key] ELSE 0

\* station_artwork_count[count_key] = artwork_count + 1
Tally(counts, count_key) ==
    [k \in DOMAIN counts \cup {count_key} |->
        IF k = count_key THEN CountOf(counts, count_key) + 1 ELSE counts[k]]

artwork_feature(artwork, matching_station, coords) ==
    [art_id |-> artwork.id,
     station_name |-> sanitize_text(artwork.station_name),
     latitude |-> coords[1],
     longitude |-> coords[2],
     related_stations |->
        << [station_id |-> matching_station.station_id,
            line |-> sanitize_text(matching_station.daytime_routes),
            borough |-> sanitize_text(matching_station.borough)] >>]

(***************************************************************************)
(* aggregate_station_data                                                  *)
(***************************************************************************)
\* Positions in station_dict.values() of the stations the artwork matches
matching_stations(sd, artwork) ==
    {k \in 1..Len(sd) : lower(sd[k].stop_name) = lower(artwork.station_name)}

ArtworkSummary(artwork) == [art_id |-> artwork.id]

\* StationWithArtworks counting the distinct summaries
StationWithArtworks_DistinctCount(station) ==
    [station_id |-> station.station_id,
     station_name |-> station.stop_name,
     latitude |-> station.latitude,
     longitude |-> station.longitude,
     borough |-> station.borough,
     lines |-> station.daytime_routes,
     artwork_count |-> Cardinality(Range(station.artworks)),
     artworks |-> station.artworks]

StationWithArtworks(station) ==
    [station_id |-> station.station_id,
     station_name |-> station.stop_name,
     latitude |-> station.latitude,
     longitude |-> station.longitude,
     borough |-> station.borough,
     lines |-> station.daytime_routes,
     artwork_count |-> Len(station.artworks),
     artworks |-> station.artworks]

aggregate_result(sd) ==
    LET kept == SelectSeq(sd, LAMBDA station : station.artworks # <<>>)
    IN  [k \in 1..Len(kept) |-> StationWithArtworks(kept[k])]

(***************************************************************************)
(* Query / filter layer                                                    *)
(***************************************************************************)
\* Python truthiness of an Optional[str]
Truthy(x) == x # None /\ x # <<>>

\* get_artworks comparing the borough without regard to case
filter_artworks_AnyCase(merged_data, borough) ==
    IF Truthy(borough)
    THEN SelectSeq(merged_data, LAMBDA artwork :
            \E k \in 1..Len(artwork.related_stations) :
                lower(artwork.related_stations[k].borough) = lower(borough))
    ELSE merged_data

\* get_artworks after the merge
filter_artworks(merged_data, borough) ==
    IF Truthy(borough)
    THEN SelectSeq(merged_data, LAMBDA artwork :
            \E k \in 1..Len(artwork.related_stations) :
                artwork.related_stations[k].borough = borough)
    ELSE merged_data

Max(S) == CHOOSE x \in S : \A y \in S : y <= x

\* get_artwork keeping the last match of the scan
find_artwork_Last(merged_data, art_id) ==
    LET hits == {k \in 1..Len(merged_data) : merged_data[k].art_id = art_id}
    IN  IF hits # {}
        THEN [status |-> 200, body |-> <<merged_data[Max(hits)]>>, detail |-> ""]
        ELSE [status |-> 404, body |-> <<>>, detail |-> "Artwork not found"]

\* get_artwork after the merge
find_artwork(merged_data, art_id) ==
    LET hits == {k \in 1..Len(merged_data) : merged_data[k].art_id = art_id}
    IN  IF hits # {}
        THEN [status |-> 200, body |-> <<merged_data[Min(hits)]>>, detail |-> ""]
        ELSE [status |-> 404, body |-> <<>>, detail |-> "Artwork not found"]

\* get_stations_with_art after the aggregation
filter_stations(aggregated_data, borough) ==
    IF Truthy(borough)
    THEN SelectSeq(aggregated_data, LAMBDA station : station.borough = borough)
    ELSE aggregated_data

Kinds == {"artworks", "artwork", "stations"}

BoroughParams == {None, <<>>, <<"M">>, <<"m">>}

ArtIdParams == {<<"1">>, <<"3">>, <<"9">>}

NoResponse == [status |-> 0, body |-> <<>>, detail |-> ""]

\* An exception that leaves the handler
ServerError == [status |-> 500, body |-> <<>>, detail |-> "Internal Server Error"]

(***************************************************************************)
(* The request                                                             *)
(***************************************************************************)
Idle ==
    /\ fetch = [u \in Upstreams |-> "idle"]
    /\ upstream = [u \in Upstreams |-> NoAnswer]
    /\ attempts = [u \in Upstreams |-> 0]
    /\ stations_data = <<>>
    /\ artworks_data = <<>>
    /\ station_dict = <<>>
    /\ pos = 0
    /\ merged_artworks = <<>>
    /\ origin = <<>>
    /\ station_artwork_count = <<>>
    /\ agg_origin = <<>>
    /\ param = None
    /\ response = NoResponse

NoText == san_in = None /\ san_once = None /\ san_twice = None

Init ==
    /\ kind \in Kinds
    /\ pc = "start"
    /\ Idle
    /\ line = None
    /\ line_set = {}
    /\ NoText
    /\ pass = 1

\* asyncio.gather starts both fetch_data tasks
fetch_all_data ==
    /\ pc = "start"
    /\ pc' = "gather"
    /\ fetch' = [u \in Upstreams |-> "pending"]
    /\ attempts' = [u \in Upstreams |-> attempts[u] + 1]
    /\ UNCHANGED <<kind, upstream, stations_data, artworks_data, station_dict, pos,
                   merged_artworks, origin, station_artwork_count, agg_origin, param,
                   response, line, line_set, san_in, san_once, san_twice, pass>>

\* One fetch_data task ends: the upstream answers, or the connection fails
Answer(u) ==
    /\ pc = "gather"
    /\ fetch[u] = "pending"
    /\ \E answer \in Answers(u) :
        /\ upstream' = [upstream EXCEPT ![u] = answer]
        /\ fetch' = [fetch EXCEPT ![u] = IF fetch_data(answer).raised THEN "raised" ELSE "done"]
    /\ UNCHANGED <<kind, pc, attempts, stations_data, artworks_data, station_dict, pos,
                   merged_artworks, origin, station_artwork_count, agg_origin, param,
                   response, line, line_set, san_in, san_once, san_twice, pass>>

\* gather re-raises the first exception; leaving the session closes it under
\* the task still running; nothing catches the exception
GatherRaise ==
    /\ pc = "gather"
    /\ \E u \in Upstreams : fetch[u] = "raised"
    /\ pc' = "done"
    /\ fetch' = [u \in Upstreams |-> IF fetch[u] = "pending" THEN "cancelled" ELSE fetch[u]]
    /\ response' = ServerError
    /\ UNCHANGED <<kind, upstream, attempts, stations_data, artworks_data, station_dict,
                   pos, merged_artworks, origin, station_artwork_count, agg_origin, param,
                   line, line_set, san_in, san_once, san_twice, pass>>

GatherReturn ==
    /\ pc = "gather"
    /\ \A u \in Upstreams : fetch[u] = "done"
    /\ pc' = "loaded"
    /\ stations_data' = fetch_data(upstream["stations"]).value
    /\ artworks_data' = fetch_data(upstream["artworks"]).value
    /\ UNCHANGED <<kind, fetch, upstream, attempts, station_dict, pos, merged_artworks,
                   origin, station_artwork_count, agg_origin, param, response, line,
                   line_set, san_in, san_once, san_twice, pass>>

\* merge_data / aggregate_station_data without a fresh tally: the tally of
\* an earlier call is kept
BuildStationDict_KeepTally ==
    /\ pc = "loaded"
    /\ IF StationsParse(stations_data)
       THEN /\ station_dict' = IF kind = "stations"
                               THEN AggregateStationDict(stations_data)
                               ELSE MergeStationDict(stations_data)
            /\ agg_origin' = [k \in 1..Len(stations_data) |-> <<>>]
            /\ merged_artworks' = <<>>
            /\ origin' = <<>>
            /\ pos' = 1
            /\ pc' = "loop"
            /\ UNCHANGED <<response, station_artwork_count>>
       ELSE /\ pc' = "done"
            /\ response' = ServerError
            /\ UNCHANGED <<station_dict, agg_origin, pos, merged_artworks, origin,
                           station_artwork_count>>
    /\ UNCHANGED <<kind, fetch, upstream, attempts, stations_data, artworks_data, param,
                   line, line_set, san_in, san_once, san_twice, pass>>

\* The opening of merge_data and aggregate_station_data: the dict
\* comprehension, then merged_artworks = [] and station_artwork_count = {}
BuildStationDict ==
    /\ pc = "loaded"
    /\ IF StationsParse(stations_data)
       THEN /\ station_dict' = IF kind = "stations"
                               THEN AggregateStationDict(stations_data)
                               ELSE MergeStationDict(stations_data)
            /\ agg_origin' = [k \in 1..Len(stations_data) |-> <<>>]
            /\ merged_artworks' = <<>>
            /\ origin' = <<>>
            /\ station_artwork_count' = <<>>
            /\ pos' = 1
            /\ pc' = "loop"
            /\ UNCHANGED response
       ELSE /\ pc' = "done"
            /\ response' = ServerError
            /\ UNCHANGED <<station_dict, agg_origin, pos, merged_artworks, origin,
                           station_artwork_count>>
    /\ UNCHANGED <<kind, fetch, upstream, attempts, stations_data, artworks_data, param,
                   line, line_set, san_in, san_once, san_twice, pass>>

\* One iteration of the for loop of merge_data
MergeStep ==
    /\ pc = "loop"
    /\ kind \in {"artworks", "artwork"}
    /\ pos <= Len(artworks_data)
    /\ LET artwork == artworks_data[pos]
           m == get_exact_station_match(station_dict, artwork)
       IN  IF m = 0
           THEN UNCHANGED <<merged_artworks, origin, station_artwork_count>>
           ELSE LET matching_station == station_dict[m]
                    base_lat == matching_station.latitude
                    base_lon == matching_station.longitude
                    count_key == matching_station.station_id
                    artwork_count == CountOf(station_artwork_count, count_key)
                IN  \E angle \in (IF artwork_count = 0 THEN {1} ELSE Angles) :
                      LET coords == IF artwork_count = 0
                                    THEN <<base_lat, base_lon>>
                                    ELSE offset_coordinates(base_lat, base_lon,
                                                            artwork_count, angle)
                      IN  /\ station_artwork_count' = Tally(station_artwork_count, count_key)
                          /\ merged_artworks' =
                                Emit(merged_artworks,
                                     artwork_feature(artwork, matching_station, coords))
                          /\ origin' = Emit(origin, pos)
    /\ pos' = pos + 1
    /\ UNCHANGED <<kind, pc, fetch, upstream, attempts, stations_data, artworks_data,
                   station_dict, agg_origin, param, response, line, line_set, san_in,
                   san_once, san_twice, pass>>

\* One iteration of the for loop of aggregate_station_data
AggregateStep ==
    /\ pc = "loop"
    /\ kind = "stations"
    /\ pos <= Len(artworks_data)
    /\ LET artwork == artworks_data[pos]
           hit == matching_stations(station_dict, artwork)
       IN  /\ station_dict' =
                [k \in 1..Len(station_dict) |->
                    IF k \in hit
                    THEN [station_dict[k] EXCEPT
                            !.artworks = Emit(@, ArtworkSummary(artwork))]
                    ELSE station_dict[k]]
           /\ agg_origin' =
                [k \in 1..Len(station_dict) |->
                    IF k \in hit THEN Emit(agg_origin[k], pos) ELSE agg_origin[k]]
    /\ pos' = pos + 1
    /\ UNCHANGED <<kind, pc, fetch, upstream, attempts, stations_data, artworks_data,
                   merged_artworks, origin, station_artwork_count, param, response, line,
                   line_set, san_in, san_once, san_twice, pass>>

LoopDone == pc = "loop" /\ pos > Len(artworks_data)

\* GET /artworks?borough=
get_artworks ==
    /\ LoopDone
    /\ kind = "artworks"
    /\ \E borough \in BoroughParams :
        /\ param' = borough
        /\ response' = [status |-> 200,
                        body |-> filter_artworks(merged_artworks, borough),
                        detail |-> ""]
    /\ pc' = "done"
    /\ UNCHANGED <<kind, fetch, upstream, attempts, stations_data, artworks_data,
                   station_dict, pos, merged_artworks, origin, station_artwork_count,
                   agg_origin, line, line_set, san_in, san_once, san_twice, pass>>

\* GET /artworks/{art_id}
get_artwork ==
    /\ LoopDone
    /\ kind = "artwork"
    /\ \E art_id \in ArtIdParams :
        /\ param' = art_id
        /\ response' = find_artwork(merged_artworks, art_id)
    /\ pc' = "done"
    /\ UNCHANGED <<kind, fetch, upstream, attempts, stations_data, artworks_data,
                   station_dict, pos, merged_artworks, origin, station_artwork_count,
                   agg_origin, line, line_set, san_in, san_once, san_twice, pass>>

\* GET /stations-with-art?borough=
get_stations_with_art ==
    /\ LoopDone
    /\ kind = "stations"
    /\ \E borough \in BoroughParams :
        /\ param' = borough
        /\ response' = [status |-> 200,
                        body |-> filter_stations(aggregate_result(station_dict), borough),
                        detail |-> ""]
    /\ pc' = "done"
    /\ UNCHANGED <<kind, fetch, upstream, attempts, stations_data, artworks_data,
                   station_dict, pos, merged_artworks, origin, station_artwork_count,
                   agg_origin, line, line_set, san_in, san_once, san_twice, pass>>

Next ==
    \/ fetch_all_data
    \/ \E u \in Upstreams : Answer(u)
    \/ GatherRaise
    \/ GatherReturn
    \/ BuildStationDict
    \/ MergeStep
    \/ AggregateStep
    \/ get_artworks
    \/ get_artwork
    \/ get_stations_with_art

Spec == Init /\ [][Next]_vars

(***************************************************************************)
(* normalize_line on its own: a label is drawn, then normalized            *)
(***************************************************************************)
LabelAlphabet == {"N", "q", "1", ",", "-", " "}

\* The shorthand table of normalize_line, in the order it is applied
Shorthands ==
    << <<"A", "C", "E">>, <<"B", "D", "F", "M">>, <<"N", "Q", "R">>,
       <<"N", "Q", "R", "W">>, <<"J", "Z">> >>

\* A label written with its characters separated by sep
RECURSIVE Separated(_, _)
Separated(l, sep) ==
    IF Len(l) <= 1 THEN l ELSE <<Head(l)>> \o sep \o Separated(Tail(l), sep)

Labels ==
    SeqsUpTo(LabelAlphabet, MaxLabelLen)
    \cup Range(Shorthands)
    \cup {lower(l) : l \in Range(Shorthands)}
    \cup {Separated(l, <<",">>) : l \in Range(Shorthands)}
    \cup {Separated(l, <<" ", "/", " ">>) : l \in Range(Shorthands)}
    \cup {Separated(<<"1", "2", "3">>, sep) : sep \in {<<",">>, <<"-">>, <<" ">>, <<"/">>}}

InitNorm ==
    /\ kind = "artworks"
    /\ pc = "label"
    /\ Idle
    /\ line \in Labels
    /\ line_set = {}
    /\ NoText
    /\ pass = 1

Normalize ==
    /\ pc = "label"
    /\ pc' = "normalized"
    /\ line_set' = normalize_line(line)
    /\ UNCHANGED <<kind, fetch, upstream, attempts, stations_data, artworks_data,
                   station_dict, pos, merged_artworks, origin, station_artwork_count,
                   agg_origin, param, response, line, san_in, san_once,
                   san_twice, pass>>

NextNorm == Normalize

SpecNorm == InitNorm /\ [][NextNorm]_vars

(***************************************************************************)
(* merge_data on its own: called on two documents, then called again on    *)
(* the same documents, as the next request does                            *)
(***************************************************************************)
InitMerge ==
    /\ kind = "artworks"
    /\ pc = "loaded"
    /\ fetch = [u \in Upstreams |-> "idle"]
    /\ upstream = [u \in Upstreams |-> NoAnswer]
    /\ attempts = [u \in Upstreams |-> 0]
    /\ stations_data \in StationFeeds
    /\ artworks_data \in ArtworkFeeds
    /\ station_dict = <<>>
    /\ pos = 0
    /\ merged_artworks = <<>>
    /\ origin = <<>>
    /\ station_artwork_count = <<>>
    /\ agg_origin = <<>>
    /\ param = None
    /\ response = NoResponse
    /\ line = None
    /\ line_set = {}
    /\ NoText
    /\ pass = 1

\* merge_data has returned and is called again; what its locals held is
\* replaced when the call initialises them
NextPass ==
    /\ LoopDone
    /\ pass < MaxPasses
    /\ pass' = pass + 1
    /\ pc' = "loaded"
    /\ UNCHANGED <<kind, fetch, upstream, attempts, stations_data, artworks_data,
                   station_dict, pos, merged_artworks, origin, station_artwork_count,
                   agg_origin, param, response, line, line_set, san_in, san_once,
                   san_twice>>

NextMerge == BuildStationDict \/ MergeStep \/ NextPass

SpecMerge == InitMerge /\ [][NextMerge]_vars

(***************************************************************************)
(* Properties                                                              *)
(***************************************************************************)
NameMatches(station, artwork) ==
    lower(sanitize_text(station.stop_name)) = lower(sanitize_text(artwork.station_name))

LinesMeet(station, artwork) ==
    normalize_line(station.daytime_routes) \cap normalize_line(artwork.line) # {}

\* The merge loop has gone past input record k
Merged(k) == kind \in {"artworks", "artwork"} /\ pc \in {"loop", "done"} /\ k < pos

Emitted(k) == \E j \in 1..Len(origin) : origin[j] = k

FeatureOf(k) == merged_artworks[CHOOSE j \in 1..Len(origin) : origin[j] = k]

RelatedIds(feature) ==
    {feature.related_stations[r].station_id : r \in 1..Len(feature.related_stations)}

MergeFinished == kind \in {"artworks", "artwork"} /\ pc = "done" /\ response.status # 500

\* C1: an artwork that gives a line label is emitted exactly when some
\* station has its sanitized name (ignoring case) and a normalized line set
\* meeting the artwork's; its related stations are then non-empty and are
\* such stations only; a name match with disjoint lines is dropped.
C1_LineMatch ==
    \A k \in 1..Len(artworks_data) :
        (Merged(k) /\ artworks_data[k].line # <<>>) =>
            LET good == {s \in 1..Len(stations_data) :
                            /\ NameMatches(stations_data[s], artworks_data[k])
                            /\ LinesMeet(stations_data[s], artworks_data[k])}
            IN  /\ Emitted(k) <=> good # {}
                /\ Emitted(k) =>
                    /\ FeatureOf(k).related_stations # <<>>
                    /\ RelatedIds(FeatureOf(k)) \subseteq
                            {stations_data[s].station_id : s \in good}

\* A finished merge that emitted one labelled artwork and dropped another
\* whose name matches a station with disjoint lines
C1_Witness ==
    /\ MergeFinished
    /\ \E k \in 1..Len(artworks_data) :
        /\ artworks_data[k].line # <<>>
        /\ ~Emitted(k)
        /\ \E s \in 1..Len(stations_data) :
            /\ NameMatches(stations_data[s], artworks_data[k])
            /\ ~LinesMeet(stations_data[s], artworks_data[k])
    /\ \E k \in 1..Len(artworks_data) : artworks_data[k].line # <<>> /\ Emitted(k)

\* C2 as written: an artwork with no line label is emitted whenever a
\* station matches its name, with all the name-matching stations related.
C2_NameOnlyMatch ==
    \A k \in 1..Len(artworks_data) :
        (Merged(k) /\ artworks_data[k].line = <<>>) =>
            LET named == {s \in 1..Len(stations_data) :
                            NameMatches(stations_data[s], artworks_data[k])}
            IN  named # {} =>
                    /\ Emitted(k)
                    /\ RelatedIds(FeatureOf(k)) =
                            {stations_data[s].station_id : s \in named}

\* C2: an artwork with no line label is never emitted by merge_data,
\* whether or not a station matches its name.
C2_NoLabelDropped ==
    \A k \in 1..Len(artworks_data) :
        (Merged(k) /\ artworks_data[k].line = <<>>) => ~Emitted(k)

\* A finished merge over an artwork without label whose name a station has
C2_Witness ==
    /\ MergeFinished
    /\ \E k \in 1..Len(artworks_data) :
        /\ artworks_data[k].line = <<>>
        /\ \E s \in 1..Len(stations_data) :
            NameMatches(stations_data[s], artworks_data[k])

\* C3: no two merged artworks related to the same station id have the same
\* (latitude, longitude), whatever angles were drawn.
C3_DistinctCoordinates ==
    \A i, j \in 1..Len(merged_artworks) :
        (i < j /\ RelatedIds(merged_artworks[i]) \cap RelatedIds(merged_artworks[j]) # {}) =>
            <<merged_artworks[i].latitude, merged_artworks[i].longitude>> #
            <<merged_artworks[j].latitude, merged_artworks[j].longitude>>

\* Three artworks merged onto one station
C3_Witness ==
    /\ MergeFinished
    /\ Len(merged_artworks) = 3
    /\ \A i \in 1..3 : RelatedIds(merged_artworks[i]) = RelatedIds(merged_artworks[1])

\* C4: the merged list is an order-preserving subsequence of the input: each
\* merged artwork comes from one input record, no record yields two, the
\* input order is kept, so there are at most as many as input records.
C4_Subsequence ==
    kind \in {"artworks", "artwork"} =>
        /\ Len(origin) = Len(merged_artworks)
        /\ Len(merged_artworks) <= Len(artworks_data)
        /\ \A j \in 1..Len(origin) :
            /\ origin[j] \in 1..Len(artworks_data)
            /\ merged_artworks[j].art_id = artworks_data[origin[j]].id
            /\ merged_artworks[j].station_name =
                    sanitize_text(artworks_data[origin[j]].station_name)
        /\ \A i, j \in 1..Len(origin) : i < j => origin[i] < origin[j]

\* Of three input records the first and the third are merged
C4_Witness == MergeFinished /\ Len(artworks_data) = 3 /\ origin = <<1, 3>>

StationsFinished ==
    kind = "stations" /\ pc = "done" /\ response.status = 200 /\ ~Truthy(param)

\* C5 as written: aggregate_station_data matches on sanitized names: a
\* station's entry holds the summary of an artwork exactly when their
\* sanitized names are equal ignoring case, whatever the line labels, and a
\* station is in the result exactly when some artwork matches it so.
C5_SanitizedNameMatch ==
    StationsFinished =>
        \A s \in 1..Len(stations_data) :
            LET named == {k \in 1..Len(artworks_data) :
                            NameMatches(stations_data[s], artworks_data[k])}
            IN  /\ {agg_origin[s][j] : j \in 1..Len(agg_origin[s])} = named
                /\ (\E e \in 1..Len(response.body) :
                        response.body[e].station_id = stations_data[s].station_id)
                   <=> named # {}

\* C6: GET /artworks/{art_id} answers 404 "Artwork not found" exactly when
\* no merged artwork of the request has that identifier, also when the
\* identifier is in the upstream feed but its artwork was dropped; otherwise
\* it answers 200 with the first merged artwork of that identifier.
C6_NotFound ==
    (kind = "artwork" /\ pc = "done" /\ param # None) =>
        LET hits == {j \in 1..Len(merged_artworks) : merged_artworks[j].art_id = param}
        IN  /\ (response.status = 404 /\ response.detail = "Artwork not found")
                <=> hits = {}
            /\ hits # {} =>
                /\ response.status = 200
                /\ response.body = <<merged_artworks[Min(hits)]>>

\* 404 for an identifier the feed holds, its artwork dropped by the merge;
\* two merged artworks share another identifier
C6_Witness ==
    /\ kind = "artwork"
    /\ pc = "done"
    /\ response.status = 404
    /\ \E k \in 1..Len(artworks_data) : artworks_data[k].id = param
    /\ \E i, j \in 1..Len(merged_artworks) :
        i < j /\ merged_artworks[i].art_id = merged_artworks[j].art_id

\* The merged artworks, in merge order, with a related station of that borough
InBorough(borough) ==
    SelectSeq(merged_artworks, LAMBDA artwork :
        \E r \in 1..Len(artwork.related_stations) :
            artwork.related_stations[r].borough = borough)

\* C7 as written: with a borough value given, GET /artworks returns exactly
\* the merged artworks, in merge order, with a related station whose borough
\* equals the value; with borough absent it returns every merged artwork.
C7_BoroughGiven ==
    (kind = "artworks" /\ pc = "done" /\ response.status = 200) =>
        response.body = IF param # None THEN InBorough(param) ELSE merged_artworks

\* C7: with a non-empty borough value GET /artworks returns exactly the
\* merged artworks, in merge order, with a related station whose borough
\* equals the value (case-sensitive); with borough absent or empty it
\* returns every merged artwork.
C7_BoroughFilter ==
    (kind = "artworks" /\ pc = "done" /\ response.status = 200) =>
        response.body = IF param # None /\ param # <<>>
                        THEN InBorough(param)
                        ELSE merged_artworks

\* A borough filter that keeps one merged artwork and removes another
C7_Witness ==
    /\ kind = "artworks"
    /\ pc = "done"
    /\ response.status = 200
    /\ param = <<"M">>
    /\ response.body # <<>>
    /\ Len(response.body) < Len(merged_artworks)

\* The fetch of upstream u failed: no answer, an error status, or no JSON
FetchFailed(u) ==
    \/ upstream[u].outcome \in {"network_error", "malformed"}
    \/ upstream[u].outcome = "json" /\ upstream[u].status \notin 200..299

MergeRan == pc \in {"loaded", "loop"} \/ station_dict # <<>> \/ pos > 0

\* C8 as written: if either concurrent fetch fails (network error, non-2xx
\* status, malformed body), in any interleaving, the request ends in a
\* server-side error, no fetch is retried and the merge does not run; the
\* merge and a 200 response come only after both fetches succeeded.
C8_FetchFailure ==
    /\ \A u \in Upstreams : attempts[u] <= 1
    /\ (\E u \in Upstreams : FetchFailed(u)) =>
            /\ ~MergeRan
            /\ pc = "done" => response.status = 500
    /\ (MergeRan \/ response.status = 200) =>
            \A u \in Upstreams : fetch[u] = "done" /\ ~FetchFailed(u)

\* C9 as written: a station whose latitude or longitude does not parse is
\* left out of the matching and the request still succeeds with the results
\* of the other stations.
C9_BadCoordinateIsolated ==
    (/\ pc = "done"
     /\ \A u \in Upstreams : fetch[u] = "done"
     /\ ~StationsParse(stations_data)) =>
        /\ response.status # 500
        /\ Len(station_dict) =
             Cardinality({k \in 1..Len(stations_data) :
                            /\ IsFloatText(stations_data[k].gtfs_latitude)
                            /\ IsFloatText(stations_data[k].gtfs_longitude)})

\* C10 as written: normalize_line gives, for each shorthand of its table,
\* the set of the shorthand's letters, and equal sets for labels that differ
\* only in their separators or in letter case.
C10_Normalized ==
    pc = "normalized" =>
        /\ upper(line) \in Range(Shorthands) =>
                line_set = {<<upper(line)[k]>> : k \in 1..Len(line)}
        /\ line_set = normalize_line(
                        [k \in 1..Len(line) |->
                            IF line[k] \in LineSeparators THEN "," ELSE UpperChar(line[k])])

(***************************************************************************)
(* sanitize_text on its own: a value is drawn and sanitized twice          *)
(***************************************************************************)
TextAlphabet == {"a", " ", "LF", "CR", "TAB", "E_ACUTE", "O_GRAVE"}

Texts == SeqsUpTo(TextAlphabet, MaxTextLen) \cup NonStrings

InitSan ==
    /\ kind = "artworks"
    /\ pc = "text"
    /\ Idle
    /\ line = None
    /\ line_set = {}
    /\ san_in \in Texts
    /\ san_once = None
    /\ san_twice = None
    /\ pass = 1

Sanitize ==
    /\ pc = "text"
    /\ pc' = "once"
    /\ san_once' = sanitize_text(san_in)
    /\ UNCHANGED <<kind, fetch, upstream, attempts, stations_data, artworks_data,
                   station_dict, pos, merged_artworks, origin, station_artwork_count,
                   agg_origin, param, response, line, line_set, san_in, san_twice,
                   pass>>

SanitizeAgain ==
    /\ pc = "once"
    /\ pc' = "twice"
    /\ san_twice' = sanitize_text(san_once)
    /\ UNCHANGED <<kind, fetch, upstream, attempts, stations_data, artworks_data,
                   station_dict, pos, merged_artworks, origin, station_artwork_count,
                   agg_origin, param, response, line, line_set, san_in, san_once,
                   pass>>

NextSan == Sanitize \/ SanitizeAgain

SpecSan == InitSan /\ [][NextSan]_vars

\* C11: sanitize_text is idempotent, sanitize_text(sanitize_text(x)) =
\* sanitize_text(x) for every string x, and a value that is not a string
\* (None included) is returned unchanged.
C11_Idempotent ==
    /\ pc = "twice" => san_twice = san_once
    /\ (pc \in {"once", "twice"} /\ ~Str(san_in)) => san_once = san_in

\* A text with a non-ASCII character, a carriage return and other
\* whitespace, changed by the first pass, sanitized twice
C11_Witness ==
    /\ pc = "twice"
    /\ Str(san_in)
    /\ Range(san_in) \cap NonAscii # {}
    /\ "CR" \in Range(san_in)
    /\ Range(san_in) \cap (Whitespace \ {"CR"}) # {}
    /\ san_once # san_in

\* C12: every entry of the station aggregation, as returned by GET
\* /stations-with-art with or without a borough filter, has artwork_count
\* equal to the length of its artworks list, and that length is at least 1.
C12_ArtworkCount ==
    (kind = "stations" /\ pc = "done" /\ response.status = 200) =>
        \A e \in 1..Len(response.body) :
            /\ response.body[e].artwork_count = Len(response.body[e].artworks)
            /\ Len(response.body[e].artworks) >= 1

\* A filtered answer with a station of two artworks, a station without
\* artwork left out
C12_Witness ==
    /\ kind = "stations"
    /\ pc = "done"
    /\ response.status = 200
    /\ param = <<"M">>
    /\ \E e \in 1..Len(response.body) : response.body[e].artwork_count >= 2
    /\ \E k \in 1..Len(station_dict) : station_dict[k].artworks = <<>>

\* The station a merged artwork was assigned to
StationOf(j) == merged_artworks[j].related_stations[1].station_id

\* The number of artworks assigned to that station before artwork j
Prior(j) == Cardinality({i \in 1..(j - 1) : StationOf(i) = StationOf(j)})

\* The coordinate of the station of that identifier, in the stations document
TrueCoordinate(id) ==
    LET k == CHOOSE k \in 1..Len(stations_data) : stations_data[k].station_id = id
    IN  <<float(stations_data[k].gtfs_latitude), float(stations_data[k].gtfs_longitude)>>

\* C13: in every merge pass the tally starts at zero, nothing being carried
\* over from an earlier pass: the first artwork assigned to a station has
\* the station's coordinate, an artwork assigned after n >= 1 others of
\* that station lies at radius (n+1) x 0.0001 degree from it, and a
\* station's tally counts the artworks assigned to it and no others.
C13_TallyAndRadius ==
    kind \in {"artworks", "artwork"} =>
        /\ \A j \in 1..Len(merged_artworks) :
            LET n == Prior(j)
                dlat == merged_artworks[j].latitude - TrueCoordinate(StationOf(j))[1]
                dlon == merged_artworks[j].longitude - TrueCoordinate(StationOf(j))[2]
                radius == (n + 1) * OffsetStep
            IN  IF n = 0
                THEN dlat = 0 /\ dlon = 0
                ELSE dlat * dlat + dlon * dlon = radius * radius
        /\ \A k \in 1..Len(stations_data) :
            CountOf(station_artwork_count, stations_data[k].station_id) =
                Cardinality({j \in 1..Len(merged_artworks) :
                                StationOf(j) = stations_data[k].station_id})

\* A second pass that assigned three artworks to one station and one to
\* another station in between
C13_Witness ==
    /\ pass = 2
    /\ LoopDone
    /\ Len(merged_artworks) = 3
    /\ StationOf(1) = StationOf(3)
    /\ StationOf(2) # StationOf(1)

====
